---- MODULE Spec2Model ----
(***************************************************************************)
(* Model of libs/model/backbone/fpn.py: the Feature Pyramid Network        *)
(* wrapper (construction, forward pass, top blocks) and its two checkpoint *)
(* loaders.                                                                *)
(*                                                                         *)
(* Tensors are symbolic terms: a raw bottom-up feature is identified by    *)
(* its name and the image it was computed from, every operation applied    *)
(* to tensors builds a term naming the operation and its arguments.  Two   *)
(* results are equal exactly when they were computed the same way.         *)
(*                                                                         *)
(* Feature and module names such as "res5", "p5" or "fpn_lateral3" are     *)
(* pairs <<prefix, number>>; "p{}".format(s) is <<"p", s>>.  Checkpoint    *)
(* keys, which the loader slices by character position, are sequences of   *)
(* characters.                                                             *)
(***************************************************************************)
EXTENDS Integers, Sequences, FiniteSets, TLC

VARIABLES
    args,       \* the constructor's arguments
    pc,         \* position of the caller / of the running method
    error,      \* the exception that ended the last call, "" when none
    loc,        \* locals of FPN.__init__
    self,       \* the attributes of the FPN instance
    fwd,        \* locals of FPN.forward
    params,     \* state_dict of the module: parameter name -> tensor data
    ld,         \* the last load_* call: its inputs, outcome and printed lines
    nloads      \* number of load_* calls made

vars == <<args, pc, error, loc, self, fwd, params, ld, nloads>>

(***************************************************************************)
(* Bounds of the model.                                                    *)
(***************************************************************************)
\* highest level number a bottom-up network names (res2 .. res<MaxLevel>)
MaxLevel == 5
\* the feature numbered i has stride 2^(i + offset), offset in 0..MaxOffset
MaxOffset == 1
\* images forward is called on
MaxImages == 2
\* most keys a checkpoint file holds
MaxCkptKeys == 2
\* checkpoint files differ in their keys and in the version of their arrays
MaxVersions == 2
\* load_* calls made on one module
MaxLoads == 2

(***************************************************************************)
(* Small helpers for Python lists and insertion-ordered dicts.             *)
(***************************************************************************)
Reverse(s) == [i \in 1..Len(s) |-> s[Len(s) + 1 - i]]

RECURSIVE Pow2(_)
Pow2(n) == IF n <= 0 THEN 1 ELSE 2 * Pow2(n - 1)

\* int(math.log2(x)) for a positive integer x: the floor of the logarithm
RECURSIVE Log2(_)
Log2(x) == IF x <= 1 THEN 0 ELSE 1 + Log2(x \div 2)

\* a dict is a sequence of <<key, value>> pairs in insertion order
DictKeys(d) == [i \in 1..Len(d) |-> d[i][1]]
DictHas(d, k) == \E i \in 1..Len(d) : d[i][1] = k
DictGet(d, k) == d[CHOOSE i \in 1..Len(d) : d[i][1] = k][2]
\* d[k] = v: an existing key keeps its position, a new key goes last
DictSet(d, k, v) ==
    IF DictHas(d, k)
    THEN [i \in 1..Len(d) |-> IF d[i][1] = k THEN <<k, v>> ELSE d[i]]
    ELSE Append(d, <<k, v>>)

RECURSIVE DictFromPairs(_)
DictFromPairs(ps) ==
    IF ps = <<>> THEN <<>>
    ELSE DictSet(DictFromPairs(SubSeq(ps, 1, Len(ps) - 1)),
                 ps[Len(ps)][1], ps[Len(ps)][2])

\* list.index(x), 0-based; -1 stands for the ValueError of a missing element
ListIndex(l, x) ==
    IF \E i \in 1..Len(l) : l[i] = x
    THEN (CHOOSE i \in 1..Len(l) : l[i] = x /\ \A j \in 1..(i - 1) : l[j] # x) - 1
    ELSE -1

\* dict(zip(keys, values)): zip stops at the shorter list
ZipDict(keys, values) ==
    LET n == IF Len(keys) < Len(values) THEN Len(keys) ELSE Len(values)
    IN  DictFromPairs([i \in 1..n |-> <<keys[i], values[i]>>])

\* a result list grown at its end instead
InsertFront_Append(l, r) == Append(l, r)

\* results.insert(0, r)
InsertFront(l, r) == <<r>> \o l

(***************************************************************************)
(* Symbolic tensors.                                                       *)
(***************************************************************************)
NoName == <<"", 0>>
NoConv == [role |-> "", idx |-> 0, cin |-> 0, cout |-> 0, kernel |-> 0, stride |-> 0]

RawT(name, img) ==
    [op |-> "raw", name |-> name, img |-> img, conv |-> NoConv, in |-> <<>>]
OpT(op, ins) ==
    [op |-> op, name |-> NoName, img |-> 0, conv |-> NoConv, in |-> ins]
\* conv(x) for a convolution module
ConvT(conv, x) ==
    [op |-> "conv", name |-> NoName, img |-> 0, conv |-> conv, in |-> <<x>>]

(***************************************************************************)
(* The bottom-up network: a Backbone naming its features <fam><i> for      *)
(* i in lo..hi, the feature numbered i having stride 2^(i + offset).       *)
(***************************************************************************)
Backbones ==
    [fam : {"res", "p"}, offset : 0..MaxOffset, lo : 2..3, hi : 3..MaxLevel]

BackboneFeatures(b) == {<<b.fam, i>> : i \in b.lo..b.hi}
out_feature_strides(b) == [f \in BackboneFeatures(b) |-> Pow2(f[2] + b.offset)]
out_feature_channels(b) == [f \in BackboneFeatures(b) |-> 16 * f[2]]
\* bottom_up(x): every feature of the network, computed from image x
BottomUpForward(b, img) == [f \in BackboneFeatures(b) |-> RawT(f, img)]

(***************************************************************************)
(* Top blocks (LastLevelMaxPool, LastLevelConv, LastLevelP6P7).            *)
(***************************************************************************)
TopBlocks == {"None", "LastLevelMaxPool", "LastLevelConv", "LastLevelP6P7"}

\* a two-level block declaring one level
TopNumLevels_AlwaysOne(t) == 1

TopNumLevels(t) == IF t = "LastLevelP6P7" THEN 2 ELSE 1

\* every top block reading the pyramid output p5
TopInFeature_AlwaysP5(t) == <<"p", 5>>

TopInFeature(t) == IF t = "LastLevelP6P7" THEN <<"res", 5>> ELSE <<"p", 5>>

TopConv(role) ==
    [role |-> role, idx |-> 0, cin |-> 0, cout |-> 0, kernel |-> 3, stride |-> 2]

TopForward(t, x) ==
    CASE t = "LastLevelMaxPool" -> <<OpT("max_pool2d", <<x>>)>>
      [] t = "LastLevelConv"    -> <<ConvT(TopConv("p5"), x)>>
      [] t = "LastLevelP6P7"    ->
            LET p6 == ConvT(TopConv("p6"), x)
                p7 == ConvT(TopConv("p7"), OpT("relu", <<p6>>))
            IN  <<p6, p7>>

(***************************************************************************)
(* FPN.__init__                                                            *)
(***************************************************************************)
\* a check that the strides grow, not that they double
StridesAreLog2Contiguous_Ascending(strides) ==
    \A i \in 2..Len(strides) : strides[i] > strides[i - 1]

\* _assert_strides_are_log2_contiguous: TRUE when no assertion fails
StridesAreLog2Contiguous(strides) ==
    \A i \in 2..Len(strides) : strides[i] = 2 * strides[i - 1]

LateralConv(idx, cin, cout) ==
    [role |-> "lateral", idx |-> idx, cin |-> cin, cout |-> cout,
     kernel |-> 1, stride |-> 1]
OutputConv(idx, cout) ==
    [role |-> "output", idx |-> idx, cin |-> cout, cout |-> cout,
     kernel |-> 3, stride |-> 1]

\* the extra level given the stride of the level below it
TopLevelStride_SameStride(s) == Pow2(s)

\* the stride recorded for the extra level p<s + 1> of a top block
TopLevelStride(s) == Pow2(s + 1)

\* lines 129-131: the extra levels of the top block, added for
\* s = stage .. stage + num_levels - 1
RECURSIVE AddTopLevels(_, _, _)
AddTopLevels(d, stage, n) ==
    IF n = 0 THEN d
    ELSE LET s == stage + n - 1
         IN  DictSet(AddTopLevels(d, stage, n - 1), <<"p", s + 1>>, TopLevelStride(s))

Undefined == -1

NoLocals ==
    [in_strides |-> <<>>, in_channels |-> <<>>, idx |-> 0, stage |-> Undefined,
     lateral_convs |-> <<>>, output_convs |-> <<>>,
     lateral_names |-> <<>>, output_conv_names |-> <<>>]

NoSelf ==
    [modules |-> <<>>, top_block |-> "None", in_features |-> <<>>, lateral_convs |-> <<>>, output_convs |-> <<>>,
     lateral_names |-> <<>>, output_conv_names |-> <<>>,
     out_feature_strides |-> <<>>, out_features |-> <<>>,
     out_feature_channels |-> <<>>, size_divisibility |-> 0, fuse_type |-> ""]

NoForward ==
    [img |-> 0, bottom_up_features |-> <<>>, x |-> <<>>, k |-> 0,
     prev_features |-> OpT("", <<>>), results |-> <<>>,
     top_in |-> OpT("", <<>>), outputs |-> <<>>]

\* sequences without repetition over S, of length at most n
RECURSIVE InjSeqs(_, _)
InjSeqs(S, n) ==
    IF n = 0 THEN {<<>>}
    ELSE LET shorter == InjSeqs(S, n - 1)
             longest == {q \in shorter : Len(q) = n - 1}
             ext(q)  == {Append(q, e) : e \in {f \in S : \A i \in 1..Len(q) : q[i] # f}}
         IN  shorter \cup UNION {ext(q) : q \in longest}


FuseTypes == {"sum", "avg", "max"}
OutChannelChoices == {64, 256}

\* the constructor calls considered: any bottom-up network, any list without
\* repetition of features it declares, in any order
CtorArgs ==
    UNION {[bottom_up : {b},
            in_features : InjSeqs(BackboneFeatures(b), b.hi - b.lo + 1),
            out_channels : OutChannelChoices, top_block : TopBlocks,
            fuse_type : FuseTypes] : b \in Backbones}

\* lines 65-79: read the strides and channels of the requested features and
\* assert that the strides are log2-contiguous
CtorStart ==
    /\ pc = "new"
    /\ LET b           == args.bottom_up
           in_strides  == [i \in 1..Len(args.in_features) |->
                              out_feature_strides(b)[args.in_features[i]]]
           in_channels == [i \in 1..Len(args.in_features) |->
                              out_feature_channels(b)[args.in_features[i]]]
       IN  /\ loc' = [loc EXCEPT !.in_strides = in_strides,
                                 !.in_channels = in_channels]
           /\ IF StridesAreLog2Contiguous(in_strides)
              THEN pc' = "ctor_loop" /\ error' = ""
              ELSE pc' = "ctor_failed" /\ error' = "AssertionError"
    /\ UNCHANGED <<args, self, fwd, params, ld, nloads>>

\* lines 81-112: one iteration of the loop creating the two convolutions of a
\* level and registering them under fpn_lateral<stage> / fpn_output<stage>
CtorLevel ==
    /\ pc = "ctor_loop"
    /\ loc.idx < Len(loc.in_channels)
    /\ LET idx          == loc.idx
           lateral_conv == LateralConv(idx, loc.in_channels[idx + 1], args.out_channels)
           output_conv  == OutputConv(idx, args.out_channels)
           stage        == Log2(loc.in_strides[idx + 1])
       IN  /\ self' = [self EXCEPT !.modules =
                         DictSet(DictSet(@, <<"fpn_lateral", stage>>, lateral_conv),
                                 <<"fpn_output", stage>>, output_conv)]
           /\ loc' = [loc EXCEPT
                        !.idx = idx + 1,
                        !.stage = stage,
                        !.lateral_convs = Append(@, lateral_conv),
                        !.lateral_names = Append(@, <<"fpn_lateral", stage>>),
                        !.output_convs = Append(@, output_conv),
                        !.output_conv_names = Append(@, <<"fpn_output", stage>>)]
    /\ UNCHANGED <<args, pc, error, fwd, params, ld, nloads>>

\* lines 114-137: store the convolutions in top-down order, build the table
\* of output features, check fuse_type
CtorFinish ==
    /\ pc = "ctor_loop"
    /\ loc.idx = Len(loc.in_channels)
    /\ LET n       == Len(loc.in_strides)
           self1   == [self EXCEPT
                         !.lateral_convs = Reverse(loc.lateral_convs),
                         !.output_convs = Reverse(loc.output_convs),
                         !.lateral_names = Reverse(loc.lateral_names),
                         !.output_conv_names = Reverse(loc.output_conv_names),
                         !.top_block = args.top_block,
                         !.in_features = args.in_features]
           strides == DictFromPairs([i \in 1..n |->
                         <<<<"p", Log2(loc.in_strides[i])>>, loc.in_strides[i]>>])
           nameErr == args.top_block # "None" /\ loc.stage = Undefined
           withTop == IF args.top_block = "None" \/ nameErr THEN strides
                      ELSE AddTopLevels(strides, loc.stage, TopNumLevels(args.top_block))
           names   == DictKeys(withTop)
           self2   == [self1 EXCEPT
                         !.out_feature_strides = withTop,
                         !.out_features = names,
                         !.out_feature_channels =
                             [i \in 1..Len(names) |-> <<names[i], args.out_channels>>]]
       IN  CASE nameErr ->
                  /\ self' = [self1 EXCEPT !.out_feature_strides = strides]
                  /\ pc' = "ctor_failed" /\ error' = "NameError"
             [] ~nameErr /\ n = 0 ->
                  /\ self' = self2
                  /\ pc' = "ctor_failed" /\ error' = "IndexError"
             [] ~nameErr /\ n > 0 /\ args.fuse_type \notin {"avg", "sum"} ->
                  /\ self' = [self2 EXCEPT !.size_divisibility = loc.in_strides[n]]
                  /\ pc' = "ctor_failed" /\ error' = "AssertionError"
             [] OTHER ->
                  /\ self' = [self2 EXCEPT !.size_divisibility = loc.in_strides[n],
                                           !.fuse_type = args.fuse_type]
                  /\ pc' = "ready" /\ error' = ""
    /\ UNCHANGED <<args, loc, fwd, params, ld, nloads>>

\* output_shape(): name -> ShapeSpec(channels, stride), in the order of _out_features
output_shape ==
    [i \in 1..Len(self.out_features) |->
        <<self.out_features[i],
          [channels |-> DictGet(self.out_feature_channels, self.out_features[i]),
           stride   |-> DictGet(self.out_feature_strides, self.out_features[i])]>>]


(***************************************************************************)
(* FPN.forward                                                             *)
(***************************************************************************)
\* number of iterations of the zip over x[1:], lateral_names[1:], output_conv_names[1:]
ZipLen ==
    LET m(a, b) == IF a < b THEN a ELSE b
        l(q)    == IF Len(q) = 0 THEN 0 ELSE Len(q) - 1
    IN  m(l(fwd.x), m(l(self.lateral_names), l(self.output_conv_names)))

\* lines 163-168: run the bottom-up network, reverse the inputs, compute the
\* lowest-resolution level
FwdStart ==
    /\ pc = "ready"
    /\ \E img \in 1..MaxImages :
         LET bottom_up_features == BottomUpForward(args.bottom_up, img)
             rev  == Reverse(self.in_features)
             x    == [i \in 1..Len(rev) |-> bottom_up_features[rev[i]]]
             prev == ConvT(self.lateral_convs[1], x[1])
         IN  fwd' = [fwd EXCEPT !.img = img,
                                !.bottom_up_features = bottom_up_features,
                                !.x = x, !.k = 0,
                                !.prev_features = prev,
                                !.results = <<ConvT(self.output_convs[1], prev)>>]
    /\ pc' = "fwd_loop"
    /\ UNCHANGED <<args, error, loc, self, params, ld, nloads>>

\* lines 170-184: one iteration of the top-down loop
FwdFuse ==
    /\ pc = "fwd_loop"
    /\ fwd.k < ZipLen
    /\ LET j                 == fwd.k + 2
           features          == fwd.x[j]
           lateral_conv      == DictGet(self.modules, self.lateral_names[j])
           output_conv       == DictGet(self.modules, self.output_conv_names[j])
           top_down_features == OpT("interpolate", <<fwd.prev_features>>)
           lateral_features  == ConvT(lateral_conv, features)
           summed            == OpT("add", <<lateral_features, top_down_features>>)
           prev              == IF self.fuse_type = "avg"
                                THEN OpT("div2", <<summed>>) ELSE summed
       IN  fwd' = [fwd EXCEPT !.k = @ + 1,
                              !.prev_features = prev,
                              !.results = InsertFront(@, ConvT(output_conv, prev))]
    /\ UNCHANGED <<args, pc, error, loc, self, params, ld, nloads>>

\* lines 186-194: the top block, fed the bottom-up feature named by its
\* in_feature when there is one, else the result at the position of that
\* name in _out_features
FwdTop ==
    /\ pc = "fwd_loop"
    /\ fwd.k = ZipLen
    /\ IF self.top_block = "None"
       THEN pc' = "fwd_assert" /\ UNCHANGED <<fwd, error>>
       ELSE LET in_feature == TopInFeature(self.top_block)
                raw        == in_feature \in DOMAIN fwd.bottom_up_features
                at         == ListIndex(self.out_features, in_feature)
            IN  CASE raw ->
                       /\ fwd' = [fwd EXCEPT
                                    !.top_in = fwd.bottom_up_features[in_feature],
                                    !.results = @ \o TopForward(self.top_block,
                                                  fwd.bottom_up_features[in_feature])]
                       /\ pc' = "fwd_assert" /\ UNCHANGED error
                  [] ~raw /\ at = -1 ->
                       pc' = "fwd_raised" /\ error' = "ValueError" /\ UNCHANGED fwd
                  [] ~raw /\ at >= Len(fwd.results) ->
                       pc' = "fwd_raised" /\ error' = "IndexError" /\ UNCHANGED fwd
                  [] OTHER ->
                       /\ fwd' = [fwd EXCEPT
                                    !.top_in = fwd.results[at + 1],
                                    !.results = @ \o TopForward(self.top_block,
                                                               fwd.results[at + 1])]
                       /\ pc' = "fwd_assert" /\ UNCHANGED error
    /\ UNCHANGED <<args, loc, self, params, ld, nloads>>

\* lines 195-198: the consistency assertion, the output mapping and the raw
\* "res2" feature added to it
FwdReturn ==
    /\ pc = "fwd_assert"
    /\ CASE Len(self.out_features) # Len(fwd.results) ->
              pc' = "fwd_raised" /\ error' = "AssertionError" /\ UNCHANGED fwd
         [] Len(self.out_features) = Len(fwd.results)
              /\ <<"res", 2>> \notin DOMAIN fwd.bottom_up_features ->
              /\ fwd' = [fwd EXCEPT !.outputs = ZipDict(self.out_features, fwd.results)]
              /\ pc' = "fwd_raised" /\ error' = "KeyError"
         [] OTHER ->
              /\ fwd' = [fwd EXCEPT !.outputs =
                           DictSet(ZipDict(self.out_features, fwd.results),
                                   <<"res", 2>>, fwd.bottom_up_features[<<"res", 2>>])]
              /\ pc' = "returned" /\ error' = ""
    /\ UNCHANGED <<args, loc, self, params, ld, nloads>>

\* the caller is back in control after forward returned or raised and may
\* call forward again (the loop of lines 410-411)
FwdAgain ==
    /\ pc \in {"returned", "fwd_raised"}
    /\ pc' = "ready" /\ error' = "" /\ fwd' = NoForward
    /\ UNCHANGED <<args, loc, self, params, ld, nloads>>


(***************************************************************************)
(* Checkpoint loading.  A parameter name or checkpoint key is a sequence   *)
(* of characters.  The module's state_dict holds one parameter of the FPN  *)
(* itself, "w", and, under "bottom_up.", the parameter "c" of the          *)
(* bottom-up network.                                                      *)
(***************************************************************************)
StrBackbone == <<"b", "a", "c", "k", "b", "o", "n", "e">>
StrNeckbone == <<"n", "e", "c", "k", "b", "o", "n", "e">>
StrBottomUp == <<"b", "o", "t", "t", "o", "m", "_", "u", "p">>
Dot == <<".">>

BottomUpKeys == {<<"c">>}
\* FPN.state_dict().keys(): own parameters and those of the bottom_up submodule
OwnKeys == {<<"w">>} \cup {StrBottomUp \o Dot \o k : k \in BottomUpKeys}

\* the keys checkpoint files are made of:
\*   "backbone.w", "backbone.bottom_up.c"  the module's names, prefixed
\*   "backbone.x"                          prefixed, no parameter of the module
\*   "w", "c"                              bare names
\*   "neckbone.w"                          another prefix of 9 characters
\*   "backbone"                            the bare first segment
KeyUniverse ==
    << StrBackbone \o Dot \o <<"w">>,
       StrBackbone \o Dot \o StrBottomUp \o Dot \o <<"c">>,
       StrBackbone \o Dot \o <<"x">>,
       <<"w">>,
       <<"c">>,
       StrNeckbone \o Dot \o <<"w">>,
       StrBackbone >>

KeyId(k) == CHOOSE i \in 1..Len(KeyUniverse) : KeyUniverse[i] = k

\* a numpy array as pickled in the file, and torch.from_numpy of it
NumpyArray(d) == [type |-> "ndarray", data |-> d]
from_numpy(a) == [type |-> "Tensor", data |-> a.data]

\* the "model" dicts of the checkpoint files considered: version v of a file
\* stores 10 * v + i under the i-th key
Checkpoints ==
    {[k \in S |-> NumpyArray(10 * v + KeyId(k))] :
        S \in {T \in SUBSET {KeyUniverse[i] : i \in 1..Len(KeyUniverse)} :
                  Cardinality(T) <= MaxCkptKeys},
        v \in 1..MaxVersions}

\* k.split(".")[0]
FirstSegment(k) ==
    LET dots == {i \in 1..Len(k) : k[i] = "."}
    IN  IF dots = {} THEN k
        ELSE SubSeq(k, 1, (CHOOSE i \in dots : \A j \in dots : i <= j) - 1)

BackbonePrefixLen == 9

\* a cut of 8 characters, one short of "backbone."
StripPrefix_OffByOne(k) ==
    IF Len(k) <= 8 THEN <<>> ELSE SubSeq(k, 9, Len(k))

\* k[9:]
StripPrefix(k) ==
    IF Len(k) <= BackbonePrefixLen THEN <<>>
    ELSE SubSeq(k, BackbonePrefixLen + 1, Len(k))

\* lines 214-218: the entries whose first dotted segment is "backbone", under
\* their key without its first 9 characters.  (No two keys of KeyUniverse are
\* cut to the same key, so the order of checkpoint.items() does not matter.)
NewCheckpoint(checkpoint) ==
    LET kept == {k \in DOMAIN checkpoint : FirstSegment(k) = StrBackbone}
    IN  [n \in {StripPrefix(k) : k \in kept} |->
            from_numpy(checkpoint[CHOOSE k \in kept : StripPrefix(k) = n])]

\* lines 236-239: every entry, under its own key
NewBottomUpCheckpoint(checkpoint) ==
    [k \in DOMAIN checkpoint |-> from_numpy(checkpoint[k])]

\* nn.Module.load_state_dict(state_dict, strict): every parameter named in
\* state_dict takes its data; with strict, a key on one side only raises
\* RuntimeError once the matching parameters have been copied
StrictLoadRaises(own, state_dict) == DOMAIN own # DOMAIN state_dict

load_state_dict(own, state_dict, strict) ==
    [state  |-> [k \in DOMAIN own |->
                    IF k \in DOMAIN state_dict THEN state_dict[k].data ELSE own[k]],
     raised |-> strict /\ StrictLoadRaises(own, state_dict)]

\* lines 220-232 and 243-255: the lines printed after loading
Report(own_keys, ckpt_keys) ==
    LET missing_keys == own_keys \ ckpt_keys
        remain_keys  == ckpt_keys \ own_keys
    IN  {[msg |-> "missing keys from checkpoint", key |-> k] : k \in missing_keys}
        \cup {[msg |-> "remaining keys from model", key |-> k] : k \in remain_keys}
        \cup (IF missing_keys = {} /\ remain_keys = {}
              THEN {[msg |-> "successfully load model", key |-> <<>>]} ELSE {})

NoCheckpointFound == [msg |-> "no checkpoint found", key |-> <<>>]

NoFile == [k \in {} |-> NumpyArray(0)]

NoLoad ==
    [fn |-> "", exists |-> FALSE, checkpoint |-> NoFile, before |-> <<>>,
     outcome |-> "none", printed |-> {}]

InitParams == [k \in OwnKeys |-> 0]

\* the strict flag load_pretrain passes to load_state_dict (line 219)
LoadPretrainStrict == TRUE

\* FPN.load_pretrain(model_path), lines 209-232
load_pretrain(exists, checkpoint) ==
    IF ~exists
    THEN \* line 211 prints, line 212 opens the file all the same
         /\ params' = params
         /\ error' = "FileNotFoundError"
         /\ ld' = [fn |-> "load_pretrain", exists |-> exists, checkpoint |-> NoFile,
                   before |-> params, outcome |-> "raised",
                   printed |-> {NoCheckpointFound}]
    ELSE LET new_checkpoint == NewCheckpoint(checkpoint)
             r == load_state_dict(params, new_checkpoint, LoadPretrainStrict)
         IN  /\ params' = r.state
             /\ error' = IF r.raised THEN "RuntimeError" ELSE ""
             /\ ld' = [fn |-> "load_pretrain", exists |-> exists,
                       checkpoint |-> checkpoint, before |-> params,
                       outcome |-> IF r.raised THEN "raised" ELSE "returned",
                       printed |-> IF r.raised THEN {}
                                   ELSE Report(DOMAIN r.state, DOMAIN new_checkpoint)]

\* FPN.load_bottom_up_pretrain(model_path), lines 234-255
load_bottom_up_pretrain(exists, checkpoint) ==
    IF ~exists
    THEN /\ params' = params
         /\ error' = "FileNotFoundError"
         /\ ld' = [fn |-> "load_bottom_up_pretrain", exists |-> exists,
                   checkpoint |-> NoFile, before |-> params,
                   outcome |-> "raised", printed |-> {}]
    ELSE LET new_checkpoint == NewBottomUpCheckpoint(checkpoint)
             own == [k \in BottomUpKeys |-> params[StrBottomUp \o Dot \o k]]
             r   == load_state_dict(own, new_checkpoint, FALSE)
         IN  /\ params' = [k \in OwnKeys |->
                             IF \E b \in BottomUpKeys : k = StrBottomUp \o Dot \o b
                             THEN r.state[CHOOSE b \in BottomUpKeys :
                                             k = StrBottomUp \o Dot \o b]
                             ELSE params[k]]
             /\ error' = IF r.raised THEN "RuntimeError" ELSE ""
             /\ ld' = [fn |-> "load_bottom_up_pretrain", exists |-> exists,
                       checkpoint |-> checkpoint, before |-> params,
                       outcome |-> IF r.raised THEN "raised" ELSE "returned",
                       printed |-> IF r.raised THEN {}
                                   ELSE Report(DOMAIN r.state, DOMAIN new_checkpoint)]

\* a call of load_pretrain on the constructed module, on a path where a
\* checkpoint file does or does not exist
LoadPretrain ==
    /\ pc = "ready"
    /\ nloads < MaxLoads
    /\ \/ load_pretrain(FALSE, NoFile)
       \/ \E checkpoint \in Checkpoints : load_pretrain(TRUE, checkpoint)
    /\ nloads' = nloads + 1
    /\ UNCHANGED <<args, pc, loc, self, fwd>>

LoadBottomUpPretrain ==
    /\ pc = "ready"
    /\ nloads < MaxLoads
    /\ \/ load_bottom_up_pretrain(FALSE, NoFile)
       \/ \E checkpoint \in Checkpoints : load_bottom_up_pretrain(TRUE, checkpoint)
    /\ nloads' = nloads + 1
    /\ UNCHANGED <<args, pc, loc, self, fwd>>

(***************************************************************************)
(* Specifications.  Spec: any constructor call, then forward calls.        *)
(* SpecLoad: the module of build_resnet_fpn_backbone is constructed, then  *)
(* checkpoints are loaded into it.                                         *)
(***************************************************************************)
Init ==
    /\ args \in CtorArgs
    /\ pc = "new" /\ error = ""
    /\ loc = NoLocals /\ self = NoSelf /\ fwd = NoForward
    /\ params = InitParams /\ ld = NoLoad /\ nloads = 0

Next ==
    \/ CtorStart
    \/ CtorLevel
    \/ CtorFinish
    \/ FwdStart
    \/ FwdFuse
    \/ FwdTop
    \/ FwdReturn
    \/ FwdAgain

Spec == Init /\ [][Next]_vars

\* lines 328-339
ResnetFpnArgs ==
    [bottom_up |-> [fam |-> "res", offset |-> 0, lo |-> 2, hi |-> 5],
     in_features |-> <<<<"res", 2>>, <<"res", 3>>, <<"res", 4>>, <<"res", 5>>>>,
     out_channels |-> 256, top_block |-> "LastLevelMaxPool", fuse_type |-> "sum"]

InitLoad ==
    /\ args = ResnetFpnArgs
    /\ pc = "new" /\ error = ""
    /\ loc = NoLocals /\ self = NoSelf /\ fwd = NoForward
    /\ params = InitParams /\ ld = NoLoad /\ nloads = 0

NextLoad ==
    \/ CtorStart
    \/ CtorLevel
    \/ CtorFinish
    \/ LoadPretrain
    \/ LoadBottomUpPretrain

SpecLoad == InitLoad /\ [][NextLoad]_vars


(***************************************************************************)
(* Properties.  What they say about the configuration is derived from the  *)
(* constructor's arguments, not from what the constructor stored.          *)
(***************************************************************************)
NumIn == Len(args.in_features)
\* stage of the i-th requested input feature: log2 of its stride 2^(number + offset)
StageOfInput(i) == args.in_features[i][2] + args.bottom_up.offset
StrideOfInput(i) == Pow2(StageOfInput(i))
InputStrides == [i \in 1..NumIn |-> StrideOfInput(i)]
NonContiguous == \E i \in 2..NumIn : StrideOfInput(i) # 2 * StrideOfInput(i - 1)
BadFuseType == args.fuse_type \notin {"sum", "avg"}
Constructed == pc \in {"ready", "fwd_loop", "fwd_assert", "fwd_raised", "returned"}
ExtraLevels ==
    CASE args.top_block = "None" -> 0
      [] args.top_block = "LastLevelP6P7" -> 2
      [] OTHER -> 1

HasBackbonePrefix(k) ==
    Len(k) >= 9 /\ SubSeq(k, 1, 9) = <<"b", "a", "c", "k", "b", "o", "n", "e", ".">>
Prefixed(n) == <<"b", "a", "c", "k", "b", "o", "n", "e", ".">> \o n
LoadPretrainDone(exists) ==
    ld.fn = "load_pretrain" /\ ld.outcome # "none" /\ ld.exists = exists

\* C1: load_pretrain on a path where no checkpoint file exists does not
\* raise: it reports the missing file, returns normally and leaves every
\* parameter as it was.
C1_MissingFileReturns ==
    LoadPretrainDone(FALSE) =>
        /\ ld.outcome = "returned"
        /\ NoCheckpointFound \in ld.printed
        /\ params = ld.before

\* the names a loader matches against the module: the keys cut by
\* load_pretrain, the keys as they are by load_bottom_up_pretrain
CkptNames ==
    IF ld.fn = "load_pretrain"
    THEN {SubSeq(k, 10, Len(k)) : k \in {c \in DOMAIN ld.checkpoint : HasBackbonePrefix(c)}}
    ELSE DOMAIN ld.checkpoint
LiveNames == IF ld.fn = "load_pretrain" THEN OwnKeys ELSE BottomUpKeys
CkptKeyOf(n) == IF ld.fn = "load_pretrain" THEN Prefixed(n) ELSE n
LiveKeyOf(n) == IF ld.fn = "load_pretrain" THEN n ELSE StrBottomUp \o Dot \o n

\* C2: a checkpoint whose names differ from the module's is not fatal in
\* either loader: the call returns, every parameter whose name matches has
\* the checkpoint's value, and the checkpoint-only and module-only names are
\* each reported.
C2_MismatchNonFatal ==
    (ld.outcome # "none" /\ ld.exists /\ CkptNames # LiveNames) =>
        /\ ld.outcome = "returned"
        /\ \A n \in CkptNames \cap LiveNames :
              params[LiveKeyOf(n)] = ld.checkpoint[CkptKeyOf(n)].data
        /\ \A n \in LiveNames \ CkptNames :
              [msg |-> "missing keys from checkpoint", key |-> n] \in ld.printed
        /\ \A n \in CkptNames \ LiveNames :
              [msg |-> "remaining keys from model", key |-> n] \in ld.printed

\* the checkpoint of the last call holds exactly the module's names, each
\* behind the prefix "backbone."
ExactPrefixedCheckpoint ==
    /\ \A k \in DOMAIN ld.checkpoint : HasBackbonePrefix(k)
    /\ {SubSeq(k, 10, Len(k)) : k \in DOMAIN ld.checkpoint} = OwnKeys

\* C3: when the checkpoint's keys are exactly the module's parameter names
\* behind "backbone.", load_pretrain returns, prints no missing and no
\* remaining key, prints success, and every parameter holds the array stored
\* under its prefixed name.
C3_RoundTrip ==
    (LoadPretrainDone(TRUE) /\ ExactPrefixedCheckpoint) =>
        /\ ld.outcome = "returned"
        /\ ld.printed = {[msg |-> "successfully load model", key |-> <<>>]}
        /\ \A n \in OwnKeys : params[n] = ld.checkpoint[Prefixed(n)].data

C3_Witness ==
    /\ LoadPretrainDone(TRUE) /\ ExactPrefixedCheckpoint
    /\ ld.outcome = "returned"
    /\ \E n \in OwnKeys : ld.before[n] # params[n]

\* C4: after a successful construction the output-shape table holds exactly
\* the names p<s> for s from the stage of the first input feature to the
\* stage of the last one plus the top block's number of levels, each once,
\* with stride 2^s and out_channels channels.
C4_OutputShapeTable ==
    Constructed =>
        LET first == StageOfInput(1)
            last  == StageOfInput(NumIn) + ExtraLevels
        IN  /\ Len(output_shape) = last - first + 1
            /\ {output_shape[i][1] : i \in 1..Len(output_shape)}
                  = {<<"p", s>> : s \in first..last}
            /\ \A i \in 1..Len(output_shape) :
                  /\ output_shape[i][2].stride = Pow2(output_shape[i][1][2])
                  /\ output_shape[i][2].channels = args.out_channels

C4_Witness ==
    /\ pc = "ready"
    /\ InputStrides = <<4, 8, 16, 32>>
    /\ args.top_block = "LastLevelMaxPool"
    /\ output_shape[5] = <<<<"p", 6>>, [channels |-> args.out_channels, stride |-> 64]>>

\* C5: with LastLevelMaxPool or LastLevelConv attached, forward computes the
\* extra level from the last, lowest-resolution pyramid output, whatever the
\* input features and their names.
C5_TopBlockReadsLastOutput ==
    (pc = "fwd_assert" /\ args.top_block \in {"LastLevelMaxPool", "LastLevelConv"}) =>
        /\ Len(fwd.results) = NumIn + 1
        /\ fwd.top_in = fwd.results[NumIn]

C7_Res2AlwaysReturned ==
    pc \in {"returned", "fwd_raised"} =>
        /\ pc = "returned"
        /\ DictHas(fwd.outputs, <<"res", 2>>)
        /\ DictGet(fwd.outputs, <<"res", 2>>) = RawT(<<"res", 2>>, fwd.img)

\* C8: a constructor call whose input strides are not log2-contiguous, or
\* whose fuse_type is neither "sum" nor "avg", fails with an assertion error
\* and never yields an instance; with non-contiguous strides it fails before
\* any lateral or output convolution exists.
C8_BadConfigAborts ==
    /\ (NonContiguous \/ BadFuseType) =>
          /\ pc \in {"new", "ctor_loop", "ctor_failed"}
          /\ pc = "ctor_failed" => error \in {"AssertionError", "NameError", "IndexError"}
          /\ (pc = "ctor_failed" /\ NumIn > 0) => error = "AssertionError"
    /\ (NonContiguous /\ pc # "new") =>
          /\ pc = "ctor_failed"
          /\ self.modules = <<>>
          /\ loc.lateral_convs = <<>> /\ loc.output_convs = <<>>

C8_Witness ==
    /\ pc = "ctor_failed"
    /\ InputStrides = <<4, 8, 32>>
    /\ self.modules = <<>>

\* C9: the consistency assertion of forward never fails: once the fusion
\* loop and the top block have run, there are as many results as declared
\* output feature names.
C9_AssertNeverFails ==
    /\ pc = "fwd_assert" => Len(self.out_features) = Len(fwd.results)
    /\ ~(pc = "fwd_raised" /\ error = "AssertionError")

C9_Witness ==
    /\ pc = "fwd_assert"
    /\ args.top_block = "LastLevelP6P7"
    /\ Len(fwd.results) = 6

\* the fused feature of the i-th input level: its lateral projection, summed
\* (and halved for "avg") with the upsampled fused feature of level i + 1
RECURSIVE ExpectedFused(_)
ExpectedFused(i) ==
    LET lateral == ConvT(LateralConv(i - 1, out_feature_channels(args.bottom_up)[args.in_features[i]],
                                     args.out_channels),
                         RawT(args.in_features[i], fwd.img))
        summed  == OpT("add", <<lateral, OpT("interpolate", <<ExpectedFused(i + 1)>>)>>)
    IN  IF i = NumIn THEN lateral
        ELSE IF args.fuse_type = "avg" THEN OpT("div2", <<summed>>) ELSE summed

\* C10: in the mapping forward returns, the output named p<s> is the output
\* convolution registered for stage s (the one created for that level)
\* applied to the fused feature of the input level of stride 2^s.
C10_NamesPairWithLevels ==
    pc = "returned" =>
        \A i \in 1..NumIn :
            LET s == StageOfInput(i)
            IN  /\ DictHas(self.modules, <<"fpn_output", s>>)
                /\ DictGet(self.modules, <<"fpn_output", s>>) = OutputConv(i - 1, args.out_channels)
                /\ DictHas(fwd.outputs, <<"p", s>>)
                /\ DictGet(fwd.outputs, <<"p", s>>)
                      = ConvT(DictGet(self.modules, <<"fpn_output", s>>), ExpectedFused(i))

C10_Witness ==
    /\ pc = "returned"
    /\ NumIn = 4
    /\ args.fuse_type = "avg"
    /\ args.top_block = "LastLevelConv"

====
